---- MODULE Spec2Model ----
(***************************************************************************)
(* A model of sled's thin Arc (src/src/arc.rs): one heap block per         *)
(* allocation holding the AtomicUsize count at offset 0 and the payload    *)
(* behind it, handles that are bare pointers to the block, and the atomic  *)
(* steps of clone, drop, get_mut, make_mut, into_raw and from_raw as       *)
(* interleaved by concurrent holders.                                      *)
(***************************************************************************)
EXTENDS Integers, Sequences, FiniteSets, Bags, TLC

\* ---------------------------------------------------------------- bounds
NThreads == 2
NAllocs == 2
MaxUnits == 3
MaxRaw == 1
\* The width of usize in the model (the arithmetic is modulo 2^UsizeBits).
UsizeBits == 16

\* ------------------------------------------------------ program constants
\* mem::size_of::<AtomicUsize>() and mem::align_of::<AtomicUsize>()
WordSize == 8
WordAlign == 8

UsizeMax == 2^UsizeBits - 1

Threads == 1..NThreads

Max(a, b) == IF a >= b THEN a ELSE b

RoundUp(x, a) == ((x + a - 1) \div a) * a

\* The addresses the allocator hands out, each the start of one block.
BlockStride == 64 * WordSize
Heap == {i * BlockStride : i \in 1..NAllocs}
NoPtr == 0

\* The payload types T of the concurrent specification: (size, align).
Types == {[size |-> 1, align |-> 1], [size |-> 16, align |-> 16]}
\* The type of a handle Arc<T> to one T (a thin pointer), and of a handle
\* Arc<[T]> to n of them (a fat pointer that carries n).
Sized(T) == [size |-> T.size, align |-> T.align, fat |-> FALSE, len |-> 1]
Slice(T, n) == [size |-> T.size, align |-> T.align, fat |-> TRUE, len |-> n]
NoType == [size |-> 0, align |-> 1, fat |-> FALSE, len |-> 0]
Vals == {42, 7}
\* The values Arc::new is called with.
NewVals == {42}

\* #[repr(C)] struct ArcInner { rc: AtomicUsize, inner: T }: the offset of
\* the field `inner`, the first multiple of T's alignment after `rc`.
InnerOffset(al) == RoundUp(WordSize, al)

\* rc_width as from_raw and copy_from_slice compute it.
RcWidthBad(al) == WordSize
RcWidth(al) ==
  LET align == Max(al, WordAlign)
  IN  Max(align, WordSize)

VARIABLES
  proc,    \* "running", or "aborted" after std::process::abort()
  blk,     \* blk[p]: "unalloc", "live" or "freed"
  rc,      \* rc[p]: the AtomicUsize at the start of block p
  mem,     \* mem[p]: the payload cells of block p, by offset from p
  ty,      \* ty[p]: the payload type T of the handles to p
  held,    \* held[t]: the bag of handles (their ptr fields) thread t owns
  raws,    \* the bag of raw payload pointers into_raw has handed out
  pc,      \* pc[t]: the operation thread t is inside, and its locals
  borrow,  \* borrow[t]: the block t holds a &mut T into (from get_mut), or NoPtr
  ret,     \* ret[t]: the call t completed last and what it returned
  frees,   \* frees[p]: how many times the deallocation step ran on p (2: twice or more)
  net,     \* net[p]: completed clones minus completed drops of handles to p
  origin,  \* origin[q]: the block make_mut copied q from, or NoPtr
  build,   \* the build: its panic strategy and whether overflow is checked
  lay,     \* lay[p]: the Layouts block p was requested with (req) and freed with (rel)
  src,     \* the caller's slice, Vec or Box that a conversion is given
  hist     \* what happens-before what among the accesses to the blocks (see NoHist)

vars == <<proc, blk, rc, mem, ty, held, raws, pc, borrow, ret, frees, net, origin,
          build, lay, src, hist>>

\* The builds of the crate: panic = "abort" or "unwind", overflow-checks on
\* (the dev profile) or off (the release profile).
Builds == [panicAbort : BOOLEAN, overflowChecks : BOOLEAN]
ReleaseBuild == [panicAbort |-> FALSE, overflowChecks |-> FALSE]

\* The process after a panic: gone when panics abort; otherwise the panic
\* unwinds out of the call and the program goes on.
AfterPanic == IF build.panicAbort THEN "aborted" ELSE "running"

\* What a call returned (val), or how it failed (err): "panic", or
\* "alloc_failed" when the allocator returned no memory.
NoRet == [op |-> "-", val |-> NoPtr, err |-> "none"]
Ret(o, v) == [op |-> o, val |-> v, err |-> "none"]
Err(o, e) == [op |-> o, val |-> NoPtr, err |-> e]

Idle == [op |-> "idle", ptr |-> NoPtr, n |-> 0, new |-> NoPtr]

One(x) == SetToBag({x})

\* Handles to p that t owns and has not lent out as a &mut borrow.
AvailBad(t, p) == p \in Heap /\ CopiesIn(p, held[t]) > 0
Avail(t, p) ==
  /\ p \in Heap
  /\ CopiesIn(p, held[t]) > (IF borrow[t] = p THEN 1 ELSE 0)

\* The raw pointer into_raw returns for a handle to p: &(*arc.ptr).inner
RawOf(p) == [addr |-> p + InnerOffset(ty[p].align), align |-> ty[p].align]

\* Reference units of p: live handles plus raw pointers not yet reclaimed.
Handles(p) ==
  LET RECURSIVE Sum(_)
      Sum(S) == IF S = {} THEN 0
                ELSE LET t == CHOOSE x \in S : TRUE
                     IN  CopiesIn(p, held[t]) + Sum(S \ {t})
  IN  Sum(Threads)

Units(p) == Handles(p) + (IF blk[p] = "unalloc" THEN 0 ELSE CopiesIn(RawOf(p), raws))

\* The cell of block p at an offset; a cell never written is uninitialized.
Uninit == -1
Cell(p, off) == IF off \in DOMAIN mem[p] THEN mem[p][off] ELSE Uninit

\* What Deref::deref reads through a handle to p, &(*self.ptr).inner: the
\* elements behind the field `inner`, as many as the pointer's type says.
DerefSlice(p) ==
  [i \in 1..ty[p].len |-> Cell(p, InnerOffset(ty[p].align) + (i - 1) * ty[p].size)]

\* The same for a handle to one T: the value.
Deref(p) == Cell(p, InnerOffset(ty[p].align))

NoLayout == [size |-> 0, align |-> 1]
\* A block as alloc returns it for a Layout: not yet handed to dealloc.
Requested(l) == [req |-> l, rel |-> NoLayout]

\* A source of a conversion: a borrowed slice &[T], a Vec<T>, a Box<[T]> or
\* a Box<T>, with
\*   elems   its elements, as they were when the caller built it
\*   len     its length (for a Vec the logical length, which set_len changes)
\*   cap     the number of elements its own backing storage has room for
\*   st      "owned" by the caller, "moved" into a handle, "dropped" with its
\*           elements by an unwinding panic, or "leaked"
\*   into    the block its elements were moved into, or NoPtr
\*   dtors   dtors[i]: how often the destructor of element i ran (2: twice or more)
\*   sfrees  how often its own backing storage was freed (2: twice or more)
Source(k, T, e) ==
  [kind |-> k, T |-> T, elems |-> e, len |-> Len(e), cap |-> Len(e), st |-> "owned",
   into |-> NoPtr, dtors |-> [i \in 1..Len(e) |-> 0], sfrees |-> 0]
NoSource == [Source("none", [size |-> 0, align |-> 1], << >>) EXCEPT !.st = "none"]

\* A count of events that matter up to "twice or more".
Once(k) == IF k < 2 THEN k + 1 ELSE k

\* The destructors of the first n elements of a source run (drop_in_place of
\* a slice of n elements).
DropElems(s, n) ==
  [s EXCEPT !.dtors = [i \in DOMAIN s.dtors |-> IF i <= n THEN Once(s.dtors[i]) ELSE s.dtors[i]]]

\* Layout::for_value of an ArcInner<T>: the layout Box::new allocates an
\* ArcInner with, and the one Box::from_raw frees it with.
LayoutOfInner(T) ==
  LET align == Max(T.align, WordAlign)
  IN  [size |-> RoundUp(InnerOffset(T.align) + T.len * T.size, align), align |-> align]

\* The block the allocator returns next (the lowest unused address; a block
\* is not reused after it was freed).
Fresh(p) ==
  /\ p \in Heap
  /\ blk[p] = "unalloc"
  /\ \A q \in Heap : blk[q] = "unalloc" => p <= q

\* A block is left for every Arc::new that a make_mut in progress will call.
FreshLeft ==
  Cardinality({p \in Heap : blk[p] = "unalloc"})
    > Cardinality({t \in Threads : pc[t].op = "mm_new"})

\* ------------------------------------------------------ happens-before
\* hist is history the program does not store. In mode "order" it records
\* which events on the blocks happen before which points of the threads; in
\* mode "count" it counts the clones made; in mode "off" it never changes.
\* An event is an access to the payload of a block by a thread or a decrement
\* of its count by a thread: [by, on, kind] stands for all the events of that
\* kind the thread has made on the block so far.
\*   know[t]  the events that happen before the point thread t is at
\*   rel[p]   the events released by the release sequences the stored count
\*            of p belongs to: what an acquire of that value synchronizes with
\*   pend[t]  the rel views thread t has read with relaxed operations: what
\*            an acquire fence of t synchronizes with
\*   all[p]   the events made on p
\*   seen[p]  know of the freeing thread at the deallocation of p
NoHist ==
  [mode |-> "off",
   know |-> [t \in Threads |-> {}], rel |-> [p \in Heap |-> {}],
   pend |-> [t \in Threads |-> {}], all |-> [p \in Heap |-> {}],
   seen |-> [p \in Heap |-> {}], clones |-> 0]

\* Thread t makes a new event of kind k on p: it is known to t alone.
Event(h, t, p, k) ==
  LET e == [by |-> t, on |-> p, kind |-> k]
  IN  [h EXCEPT !.know = [u \in Threads |-> IF u = t THEN h.know[u] \cup {e} ELSE h.know[u] \ {e}],
                !.rel = [q \in Heap |-> h.rel[q] \ {e}],
                !.pend = [u \in Threads |-> h.pend[u] \ {e}],
                !.all = [h.all EXCEPT ![p] = @ \cup {e}]]

\* A read or a write of the payload of p by t (Deref, or through &mut T).
HistAccess(t, p) == IF hist.mode = "order" THEN Event(hist, t, p, "access") ELSE hist

\* fetch_add(1, Ordering::Relaxed): a read-modify-write, so the release
\* sequences go on through it; it releases nothing and acquires nothing.
HistFetchAdd(t, p) ==
  CASE hist.mode = "order" -> [hist EXCEPT !.pend[t] = @ \cup hist.rel[p]]
    [] hist.mode = "count" -> [hist EXCEPT !.clones = @ + 1]
    [] OTHER -> hist

\* What a store with Ordering::Release adds to the view the location carries.
ReleaseViewBad(view, own) == view
ReleaseView(view, own) == view \cup own

\* fetch_sub(1, Ordering::Release): the decrement is an event of t; the
\* read is relaxed, the write releases what t knows.
HistFetchSub(t, p) ==
  IF hist.mode = "order"
    THEN LET h == Event(hist, t, p, "dec")
         IN  [h EXCEPT !.pend[t] = @ \cup h.rel[p],
                       !.rel[p] = ReleaseView(@, h.know[t])]
    ELSE hist

\* std::sync::atomic::fence(Ordering::Acquire), then Box::from_raw(self.ptr)
HistFenceAcquire(t, p) ==
  IF hist.mode = "order"
    THEN [hist EXCEPT !.know[t] = @ \cup hist.pend[t],
                      !.pend[t] = {},
                      !.seen[p] = hist.know[t] \cup hist.pend[t]]
    ELSE hist

\* rc.load(Ordering::Acquire) in strong_count
HistLoadAcquire(t, p) ==
  IF hist.mode = "order" THEN [hist EXCEPT !.know[t] = @ \cup hist.rel[p]] ELSE hist

\* A handle goes from t to u (Send): whatever carries it synchronizes.
HistSend(t, u) ==
  IF hist.mode = "order" THEN [hist EXCEPT !.know[u] = @ \cup hist.know[t]] ELSE hist

Init ==
  /\ hist = NoHist
  /\ proc = "running"
  /\ blk = [p \in Heap |-> "unalloc"]
  /\ rc = [p \in Heap |-> 0]
  /\ mem = [p \in Heap |-> << >>]
  /\ ty = [p \in Heap |-> NoType]
  /\ held = [t \in Threads |-> EmptyBag]
  /\ raws = EmptyBag
  /\ pc = [t \in Threads |-> Idle]
  /\ borrow = [t \in Threads |-> NoPtr]
  /\ ret = [t \in Threads |-> NoRet]
  /\ frees = [p \in Heap |-> 0]
  /\ net = [p \in Heap |-> 0]
  /\ origin = [p \in Heap |-> NoPtr]
  /\ build = ReleaseBuild
  /\ lay = [p \in Heap |-> Requested(NoLayout)]
  /\ src = NoSource

\* AtomicUsize::new(1), the count every construction path stores.
InitCountBad == 1 + 1
InitCount == 1

\* Box::new(ArcInner { inner, rc: AtomicUsize::new(1) }) into block p.
Alloc(p, T, v) ==
  /\ blk' = [blk EXCEPT ![p] = "live"]
  /\ rc' = [rc EXCEPT ![p] = InitCount]
  /\ mem' = [mem EXCEPT ![p] = (InnerOffset(T.align) :> v)]
  /\ ty' = [ty EXCEPT ![p] = Sized(T)]
  /\ lay' = [lay EXCEPT ![p] = Requested(LayoutOfInner(Sized(T)))]

\* Arc::new(inner), reached as `path`: "new", or "default" from
\* Default::default.
NewAs(t, T, v, path) ==
  /\ proc = "running"
  /\ pc[t].op = "idle"
  /\ FreshLeft
  /\ \E p \in Heap :
       /\ Fresh(p)
       /\ Alloc(p, T, v)
       /\ held' = [held EXCEPT ![t] = @ (+) One(p)]
       /\ ret' = [ret EXCEPT ![t] = Ret(path, p)]
       /\ hist' = HistAccess(t, p)
  /\ UNCHANGED <<proc, raws, pc, borrow, frees, net, origin, build, src>>

New(t, T, v) == NewAs(t, T, v, "new")

\* rc.fetch_add(1, Relaxed): the stored value after it (wrapping).
FetchAddLost(x) == x
FetchAdd(x) == (x + 1) % (2^UsizeBits)

\* rc.fetch_sub(1, Release): the stored value after it (wrapping).
FetchSubTwice(x) == (x - 2) % (2^UsizeBits)
FetchSub(x) == (x - 1) % (2^UsizeBits)

\* clone, first step: let last_count = rc.fetch_add(1, Relaxed)
CloneFetchAdd(t, p) ==
  /\ proc = "running"
  /\ pc[t].op = "idle"
  /\ Avail(t, p)
  /\ Units(p) < MaxUnits
  /\ rc' = [rc EXCEPT ![p] = FetchAdd(@)]
  /\ pc' = [pc EXCEPT ![t] = [op |-> "clone", ptr |-> p, n |-> rc[p], new |-> NoPtr]]
  /\ ret' = [ret EXCEPT ![t] = NoRet]
  /\ hist' = HistFetchAdd(t, p)
  /\ UNCHANGED <<proc, blk, mem, ty, held, raws, borrow, frees, net, origin, build, lay, src>>

\* clone, second step: abort on last_count == usize::max_value(), or
\* return Arc { ptr: self.ptr }
CloneReturn(t) ==
  /\ proc = "running"
  /\ pc[t].op = "clone"
  /\ IF pc[t].n = UsizeMax
       THEN /\ proc' = "aborted"
            /\ UNCHANGED <<held, net>>
       ELSE /\ held' = [held EXCEPT ![t] = @ (+) One(pc[t].ptr)]
            /\ net' = [net EXCEPT ![pc[t].ptr] = @ + 1]
            /\ UNCHANGED proc
  /\ pc' = [pc EXCEPT ![t] = Idle]
  /\ UNCHANGED <<blk, rc, mem, ty, raws, borrow, ret, frees, origin, build, lay, src, hist>>

\* The test of drop on the result of the decrement.
IsLastBad(n) == n <= 1
IsLastNever(n) == FALSE
IsLast(n) == n = 0

\* The `- 1` on the value fetch_sub returned (wrapping where overflow is
\* not checked).
Sub1Bad(x) == x
Sub1(x) == (x - 1) % (2^UsizeBits)

\* let rc = (*self.ptr).rc.fetch_sub(1, Release) - 1, by thread t on block p;
\* q is the handle make_mut puts in place of the dropped one, or NoPtr.
\* With overflow checks, `0 - 1` panics after the fetch_sub has stored.
DropStart(t, p, q) ==
  /\ rc' = [rc EXCEPT ![p] = FetchSub(@)]
  /\ hist' = HistFetchSub(t, p)
  /\ IF rc[p] = 0 /\ build.overflowChecks
       THEN /\ pc' = [pc EXCEPT ![t] = Idle]
            /\ proc' = AfterPanic
            /\ ret' = [ret EXCEPT ![t] = Err("drop", "panic")]
       ELSE /\ pc' = [pc EXCEPT ![t] = [op |-> "drop", ptr |-> p, n |-> Sub1(rc[p]), new |-> q]]
            /\ ret' = [ret EXCEPT ![t] = NoRet]
            /\ UNCHANGED proc

\* drop, first step
DropFetchSub(t, p) ==
  /\ proc = "running"
  /\ pc[t].op = "idle"
  /\ Avail(t, p)
  /\ held' = [held EXCEPT ![t] = @ (-) One(p)]
  /\ DropStart(t, p, NoPtr)
  /\ UNCHANGED <<blk, mem, ty, raws, borrow, frees, net, origin, build, lay, src>>

\* drop, second step: if rc == 0 { fence(Acquire); Box::from_raw(self.ptr) }
\* The Box frees the block with the Layout of the ArcInner value it points to.
\* Box::from_raw(..) is dropped at once: the payload's destructor runs (for a
\* slice payload, the destructor of each of its len elements; the elements
\* that came out of a Vec or a Box are the source's) and the block is freed.
\* A drop that make_mut's assignment started goes on in make_mut.
DropFinish(t) ==
  /\ proc = "running"
  /\ pc[t].op = "drop"
  /\ LET p == pc[t].ptr
     IN  /\ IF IsLast(pc[t].n)
              THEN /\ blk' = [blk EXCEPT ![p] = "freed"]
                   /\ frees' = [frees EXCEPT ![p] = IF @ < 2 THEN @ + 1 ELSE @]
                   /\ lay' = [lay EXCEPT ![p].rel = LayoutOfInner(ty[p])]
              ELSE UNCHANGED <<blk, frees, lay>>
         /\ net' = [net EXCEPT ![p] = @ - 1]
         /\ src' = IF IsLast(pc[t].n) /\ src.into = p THEN DropElems(src, ty[p].len) ELSE src
  /\ pc' = [pc EXCEPT ![t] =
              IF pc[t].new = NoPtr THEN Idle
              ELSE [op |-> "mm_get", ptr |-> pc[t].new, n |-> 1, new |-> NoPtr]]
  /\ hist' = (IF IsLast(pc[t].n) THEN HistFenceAcquire(t, pc[t].ptr) ELSE hist)
  /\ UNCHANGED <<proc, rc, mem, ty, held, raws, borrow, ret, origin, build>>

\* A handle moves to another thread (unsafe impl Send for Arc).
Send(t, u, p) ==
  /\ proc = "running"
  /\ t # u
  /\ pc[t].op = "idle"
  /\ Avail(t, p)
  /\ held' = [held EXCEPT ![t] = @ (-) One(p), ![u] = @ (+) One(p)]
  /\ ret' = [ret EXCEPT ![t] = NoRet]
  /\ hist' = HistSend(t, u)
  /\ UNCHANGED <<proc, blk, rc, mem, ty, raws, pc, borrow, frees, net, origin, build, lay, src>>

\* Arc::into_raw(arc), of impl<T> Arc<T> (T sized: a thin handle): the
\* payload address; mem::forget(arc) runs no drop.
IntoRaw(t, p) ==
  /\ proc = "running"
  /\ pc[t].op = "idle"
  /\ Avail(t, p)
  /\ ~ty[p].fat
  /\ BagCardinality(raws) < MaxRaw
  /\ held' = [held EXCEPT ![t] = @ (-) One(p)]
  /\ raws' = raws (+) One(RawOf(p))
  /\ ret' = [ret EXCEPT ![t] = NoRet]
  /\ UNCHANGED <<proc, blk, rc, mem, ty, pc, borrow, frees, net, origin, build, lay, src, hist>>

\* Arc::from_raw(ptr): Arc { ptr: (ptr as *const u8).sub(rc_width) }
FromRaw(t, r) ==
  /\ proc = "running"
  /\ pc[t].op = "idle"
  /\ BagIn(r, raws)
  /\ raws' = raws (-) One(r)
  /\ held' = [held EXCEPT ![t] = @ (+) One(r.addr - RcWidth(r.align))]
  /\ ret' = [ret EXCEPT ![t] = Ret("from_raw", r.addr - RcWidth(r.align))]
  /\ UNCHANGED <<proc, blk, rc, mem, ty, pc, borrow, frees, net, origin, build, lay, src, hist>>

\* Arc::strong_count(arc): rc.load(Acquire)
StrongCount(p) == rc[p]

\* The test of get_mut on the count it loads.
IsUniqueBad(n) == n <= 2
IsUnique(n) == n = 1

\* Arc::get_mut(arc): Some(&mut inner) if strong_count == 1, else None
GetMut(t, p) ==
  /\ proc = "running"
  /\ pc[t].op = "idle"
  /\ borrow[t] = NoPtr
  /\ Avail(t, p)
  /\ IF IsUnique(StrongCount(p))
       THEN /\ borrow' = [borrow EXCEPT ![t] = p]
            /\ ret' = [ret EXCEPT ![t] = Ret("get_mut", "Some")]
       ELSE /\ UNCHANGED borrow
            /\ ret' = [ret EXCEPT ![t] = Ret("get_mut", "None")]
  /\ hist' = HistLoadAcquire(t, p)
  /\ UNCHANGED <<proc, blk, rc, mem, ty, held, raws, pc, frees, net, origin, build, lay, src>>

\* A write through the &mut T that get_mut or make_mut returned.
WriteMut(t, v) ==
  /\ proc = "running"
  /\ pc[t].op = "idle"
  /\ borrow[t] # NoPtr
  /\ Deref(borrow[t]) # v
  /\ mem' = [mem EXCEPT ![borrow[t]] = (InnerOffset(ty[borrow[t]].align) :> v)]
  /\ hist' = HistAccess(t, borrow[t])
  /\ UNCHANGED <<proc, blk, rc, ty, held, raws, pc, borrow, ret, frees, net, origin, build, lay, src>>

\* The &mut T goes out of scope.
EndBorrow(t) ==
  /\ proc = "running"
  /\ pc[t].op = "idle"
  /\ borrow[t] # NoPtr
  /\ borrow' = [borrow EXCEPT ![t] = NoPtr]
  /\ ret' = [ret EXCEPT ![t] = NoRet]
  /\ UNCHANGED <<proc, blk, rc, mem, ty, held, raws, pc, frees, net, origin, build, lay, src, hist>>

\* The test of make_mut on the count it loads: strong_count(arc) != 1
NeedsCopyBad(n) == TRUE
NeedsCopy(n) == n # 1

\* make_mut, the test: if Arc::strong_count(arc) != 1
MakeMutCheck(t, p) ==
  /\ proc = "running"
  /\ pc[t].op = "idle"
  /\ borrow[t] = NoPtr
  /\ Avail(t, p)
  /\ FreshLeft
  /\ pc' = [pc EXCEPT ![t] =
              [op |-> IF NeedsCopy(StrongCount(p)) THEN "mm_new" ELSE "mm_get",
               ptr |-> p, n |-> 0, new |-> NoPtr]]
  /\ ret' = [ret EXCEPT ![t] = NoRet]
  /\ hist' = HistLoadAcquire(t, p)
  /\ UNCHANGED <<proc, blk, rc, mem, ty, held, raws, borrow, frees, net, origin, build, lay, src>>

\* The payload make_mut stores in the new allocation: (**arc).clone()
CopyOfBad(p) == 0
CopyOf(p) == Deref(p)

\* make_mut, the copy: Arc::new((**arc).clone())
MakeMutNew(t) ==
  /\ proc = "running"
  /\ pc[t].op = "mm_new"
  /\ \E q \in Heap :
       /\ Fresh(q)
       /\ Alloc(q, [size |-> ty[pc[t].ptr].size, align |-> ty[pc[t].ptr].align], CopyOf(pc[t].ptr))
       /\ pc' = [pc EXCEPT ![t] = [@ EXCEPT !.op = "mm_assign", !.new = q]]
       /\ origin' = [origin EXCEPT ![q] = pc[t].ptr]
       /\ hist' = HistAccess(t, pc[t].ptr)
  /\ UNCHANGED <<proc, held, raws, borrow, ret, frees, net, build, src>>

\* make_mut, the assignment *arc = ...: the new handle takes the place of
\* the old one, whose drop starts (fetch_sub) and finishes in DropFinish.
MakeMutAssign(t) ==
  /\ proc = "running"
  /\ pc[t].op = "mm_assign"
  /\ LET p == pc[t].ptr
         q == pc[t].new
     IN  /\ held' = [held EXCEPT ![t] = (@ (-) One(p)) (+) One(q)]
         /\ DropStart(t, p, q)
  /\ UNCHANGED <<blk, mem, ty, raws, borrow, frees, net, origin, build, lay, src>>

\* make_mut, the end: after the copy assert_eq!(Arc::strong_count(arc), 1)
\* (pc[t].n = 1 says the copy was made), then Arc::get_mut(arc).unwrap().
\* A failed assertion or an unwrap of None panics, and no borrow is handed out.
MakeMutGet(t) ==
  /\ proc = "running"
  /\ pc[t].op = "mm_get"
  /\ IF /\ pc[t].n = 1 => StrongCount(pc[t].ptr) = 1
        /\ IsUnique(StrongCount(pc[t].ptr))
       THEN /\ borrow' = [borrow EXCEPT ![t] = pc[t].ptr]
            /\ ret' = [ret EXCEPT ![t] = Ret("make_mut", pc[t].ptr)]
            /\ UNCHANGED proc
       ELSE /\ UNCHANGED borrow
            /\ ret' = [ret EXCEPT ![t] = Err("make_mut", "panic")]
            /\ proc' = AfterPanic
  /\ pc' = [pc EXCEPT ![t] = Idle]
  /\ hist' = HistLoadAcquire(t, pc[t].ptr)
  /\ UNCHANGED <<blk, rc, mem, ty, held, raws, frees, net, origin, build, lay, src>>

Next ==
  \/ \E t \in Threads, T \in Types, v \in NewVals : New(t, T, v)
  \/ \E t \in Threads, p \in Heap : CloneFetchAdd(t, p)
  \/ \E t \in Threads : CloneReturn(t)
  \/ \E t \in Threads, p \in Heap : DropFetchSub(t, p)
  \/ \E t \in Threads : DropFinish(t)
  \/ \E t \in Threads, u \in Threads, p \in Heap : Send(t, u, p)
  \/ \E t \in Threads, p \in Heap : IntoRaw(t, p)
  \/ \E t \in Threads, r \in BagToSet(raws) : FromRaw(t, r)
  \/ \E t \in Threads, p \in Heap : GetMut(t, p)
  \/ \E t \in Threads, v \in Vals : WriteMut(t, v)
  \/ \E t \in Threads : EndBorrow(t)
  \/ \E t \in Threads, p \in Heap : MakeMutCheck(t, p)
  \/ \E t \in Threads : MakeMutNew(t)
  \/ \E t \in Threads : MakeMutAssign(t)
  \/ \E t \in Threads : MakeMutGet(t)

Spec == Init /\ [][Next]_vars

\* ------------------------------------------------- the count at its maximum
\* A state in which the count of one allocation is usize::MAX: every thread
\* owns one handle to it, and the other reference units belong to handles
\* that were cloned and given to into_raw, their raw pointers never passed
\* back to from_raw.
OverflowBlock == BlockStride

InitOverflow ==
  /\ hist = NoHist
  /\ proc = "running"
  /\ build \in Builds
  /\ blk = [p \in Heap |-> IF p = OverflowBlock THEN "live" ELSE "unalloc"]
  /\ rc = [p \in Heap |-> IF p = OverflowBlock THEN UsizeMax ELSE 0]
  /\ ty = [p \in Heap |-> IF p = OverflowBlock THEN Sized([size |-> 1, align |-> 1]) ELSE NoType]
  /\ mem = [p \in Heap |-> IF p = OverflowBlock THEN (InnerOffset(1) :> 42) ELSE << >>]
  /\ held = [t \in Threads |-> One(OverflowBlock)]
  /\ raws = EmptyBag
  /\ pc = [t \in Threads |-> Idle]
  /\ borrow = [t \in Threads |-> NoPtr]
  /\ ret = [t \in Threads |-> NoRet]
  /\ frees = [p \in Heap |-> 0]
  /\ net = [p \in Heap |-> IF p = OverflowBlock THEN UsizeMax - 1 ELSE 0]
  /\ origin = [p \in Heap |-> NoPtr]
  /\ lay = [p \in Heap |-> IF p = OverflowBlock THEN Requested(LayoutOfInner(Sized([size |-> 1, align |-> 1])))
                         ELSE Requested(NoLayout)]
  /\ src = NoSource

NextOverflow ==
  \/ \E t \in Threads, p \in Heap : CloneFetchAdd(t, p)
  \/ \E t \in Threads : CloneReturn(t)
  \/ \E t \in Threads, p \in Heap : DropFetchSub(t, p)
  \/ \E t \in Threads : DropFinish(t)
  \/ \E t \in Threads, p \in Heap : GetMut(t, p)
  \/ \E t \in Threads : EndBorrow(t)

SpecOverflow == InitOverflow /\ [][NextOverflow]_vars

\* A clone has done the overflowing increment and has not yet aborted.
OverflowPending == \E t \in Threads : pc[t].op = "clone" /\ pc[t].n = UsizeMax

\* C8: the count never wraps: while the process runs, a live allocation with
\* live handles never has a stored count below the number of those handles
\* (0 or a small value), and once a clone has done the overflowing increment
\* no handle is handed out and no allocation is freed.
C8_CountNeverWraps ==
  [][/\ proc = "running" =>
          \A p \in Heap : blk[p] = "live" => rc[p] >= Handles(p)
     /\ (OverflowPending /\ proc' = "running") =>
          /\ \A t \in Threads, p \in Heap : CopiesIn(p, held'[t]) <= CopiesIn(p, held[t])
          /\ blk' = blk]_vars

\* The parts of C8, each on its own.
C8_NoFreeAfterOverflow == [][OverflowPending => blk' = blk]_vars
C8_NoHandleAfterOverflow ==
  [][(OverflowPending /\ proc' = "running") =>
       \A t \in Threads, p \in Heap : CopiesIn(p, held'[t]) <= CopiesIn(p, held[t])]_vars
C8_AbortsOnOverflow ==
  [][\A t \in Threads :
       (pc[t].op = "clone" /\ pc[t].n = UsizeMax /\ pc'[t] # pc[t]) => proc' = "aborted"]_vars

\* ------------------------------------------------------ construction paths
\* The longest slice, Vec or boxed slice a conversion is given.
MaxLen == 3
\* The values of the elements of a source.
Elems == {1, 2, 3}
\* T::default()
DefaultVal == 0

SeqsUpTo(n) == UNION {[1..k -> Elems] : k \in 0..n}

\* What the caller has for a conversion: a borrowed slice &[T], a Vec<T>, a
\* Box<[T]> or a Box<T> (one element), of elements of type T, which the
\* caller owns ("owned") until a conversion takes it.
Sources ==
  {Source(k, T, e) : k \in {"slice", "vec", "box_slice"}, T \in Types, e \in SeqsUpTo(MaxLen)}
  \cup
  {Source("box", T, <<x>>) : T \in Types, x \in Elems}

\* Box::new finds no memory: it calls handle_alloc_error, which aborts the
\* process. Arc::new is reached as `path`.
NewFail(t, path) ==
  /\ proc = "running"
  /\ pc[t].op = "idle"
  /\ proc' = "aborted"
  /\ ret' = [ret EXCEPT ![t] = Err(path, "alloc_failed")]
  /\ UNCHANGED <<blk, rc, mem, ty, held, raws, pc, borrow, frees, net, origin, build, lay, src, hist>>

\* Default::default(): Arc::new(T::default())
Default(t, T) == NewAs(t, T, DefaultVal, "default")

\* ptr::copy_nonoverlapping(src, dst, count) of elements of `size` bytes from
\* the sequence s to the offset `base` of a block: the cells it writes.
CopyNonoverlappingBad(s, base, size, count) ==
  [off \in {base + (i - 1) * size : i \in 1..(count - 1)} |-> s[((off - base) \div size) + 1]]
CopyNonoverlapping(s, base, size, count) ==
  [off \in {base + (i - 1) * size : i \in 1..count} |-> s[((off - base) \div size) + 1]]

\* (size_unpadded + align - 1) & !(align - 1), in usize arithmetic
SizePaddedBad(size_unpadded, align) == size_unpadded
SizePadded(size_unpadded, align) ==
  LET sum == (size_unpadded + align - 1) % (2^UsizeBits)
  IN  sum - (sum % align)

\* isize::MAX, the largest size a Layout and the largest length a slice has
IsizeMax == 2^(UsizeBits - 1) - 1

\* Layout::from_size_align(size, align) is Ok
LayoutOk(size, align) == RoundUp(size, align) <= IsizeMax

\* copy_from_slice panics before it asks for memory: the checked_mul or the
\* checked_add is None, the padding overflows in a build that checks
\* overflow, or the Layout is refused.
CopyFromSlicePanics(T, n) ==
  LET align == Max(T.align, WordAlign)
      rc_width == Max(align, WordSize)
      data_width == T.size * n
      size_unpadded == rc_width + data_width
  IN  \/ data_width > UsizeMax
      \/ size_unpadded > UsizeMax
      \/ build.overflowChecks /\ size_unpadded + align - 1 > UsizeMax
      \/ ~LayoutOk(SizePadded(size_unpadded, align), align)

\* A call panics with `why`: nothing is allocated and no handle is returned.
Panics(t, path, why) ==
  /\ proc' = AfterPanic
  /\ ret' = [ret EXCEPT ![t] = Err(path, why)]
  /\ UNCHANGED <<blk, rc, mem, ty, lay, held>>

\* rc_width as copy_from_slice computes it (the offset it copies the
\* elements to).
CopyRcWidth(al) ==
  LET align == Max(al, WordAlign)
  IN  Max(align, WordSize)

\* fatten: assert!(isize::try_from(len).is_ok())
FitsIsizeBad(n) == TRUE
FitsIsize(n) == n <= IsizeMax

\* The elements of a slice of length n that the model keeps the values of:
\* all of them when s holds n values, none when the values are left out.
Tracked(s, n) == IF n <= Len(s) THEN n ELSE Len(s)

\* Arc::copy_from_slice(s) for a slice of n elements of type T whose values
\* are s (or are left out), called from the conversion `path`; ok: alloc
\* returns memory.
CopyFromSlice(t, s, n, T, ok, path) ==
  LET align == Max(T.align, WordAlign)
      rc_width == CopyRcWidth(T.align)
      data_width == T.size * n
      size_unpadded == rc_width + data_width
      size_padded == SizePadded(size_unpadded, align)
  IN  IF CopyFromSlicePanics(T, n) THEN Panics(t, path, "panic")
      ELSE IF ~ok THEN Panics(t, path, "alloc_failed")
      ELSE \E p \in Heap :
             /\ Fresh(p)
             /\ blk' = [blk EXCEPT ![p] = "live"]
             /\ lay' = [lay EXCEPT ![p] = Requested([size |-> size_padded, align |-> align])]
             /\ rc' = [rc EXCEPT ![p] = InitCount]
             /\ mem' = [mem EXCEPT ![p] = CopyNonoverlapping(s, rc_width, T.size, Tracked(s, n))]
             /\ ty' = [ty EXCEPT ![p] = Slice(T, n)]
             /\ IF ~FitsIsize(n)
                  THEN /\ proc' = AfterPanic
                       /\ ret' = [ret EXCEPT ![t] = Err(path, "panic")]
                       /\ UNCHANGED held
                  ELSE /\ held' = [held EXCEPT ![t] = @ (+) One(p)]
                       /\ ret' = [ret EXCEPT ![t] = Ret(path, p)]
                       /\ UNCHANGED proc

\* From<&[T]>::from(s), T: Copy
FromSlice(t, ok) ==
  /\ proc = "running"
  /\ pc[t].op = "idle"
  /\ FreshLeft
  /\ src.kind = "slice"
  /\ CopyFromSlice(t, src.elems, src.len, src.T, ok, "from_slice")
  /\ UNCHANGED <<raws, pc, borrow, frees, net, origin, build, src, hist>>

\* v.set_len(n)
SetLenBad(s, n) == s
SetLen(s, n) == [s EXCEPT !.len = n]

\* A Vec goes out of scope: the destructors of its len elements run, and its
\* buffer is freed if it has one (capacity and element size not 0).
VecDrop(s) ==
  [DropElems(s, s.len) EXCEPT !.sfrees = IF s.T.size * s.cap # 0 THEN Once(@) ELSE @]

\* From<Vec<T>>::from(v): copy_from_slice(&v), then v.set_len(0) and v goes
\* out of scope, which frees its buffer and destroys no element. A panic in
\* copy_from_slice unwinds through v, which is dropped with its elements.
FromVec(t, ok) ==
  /\ proc = "running"
  /\ pc[t].op = "idle"
  /\ FreshLeft
  /\ src.kind = "vec"
  /\ src.st = "owned"
  /\ CopyFromSlice(t, src.elems, src.len, src.T, ok, "from_vec")
  /\ src' = IF ret'[t].err = "none"
              THEN VecDrop(SetLen([src EXCEPT !.st = "moved", !.into = ret'[t].val], 0))
            ELSE IF build.panicAbort THEN src
            ELSE VecDrop([src EXCEPT !.st = "dropped"])
  /\ UNCHANGED <<raws, pc, borrow, frees, net, origin, build, hist>>

\* Layout::padding_needed_for(size, align)
PaddingNeededFor(size, al) == RoundUp(size, al) - size

\* The offset Layout::new::<ArcInner<()>>().extend(value_layout) puts the
\* value at: the size of the header plus the padding the value's alignment needs.
ExtendOffsetBad(al) == WordSize
ExtendOffset(al) == WordSize + PaddingNeededFor(WordSize, al)

\* if value_layout.size() != 0 { dealloc(src as *mut u8, value_layout) }: the
\* memory of the box is freed and no destructor runs.
FreeBoxBad(s, size) ==
  [DropElems(s, s.len) EXCEPT !.sfrees = Once(@)]
FreeBox(s, size) ==
  [s EXCEPT !.sfrees = IF size # 0 THEN Once(@) ELSE @]

\* From<Box<T>>::from(b), T: ?Sized, for a Box<T> or a Box<[T]>. The box is
\* given up with Box::into_raw first, so a panic leaks it; after the copy its
\* memory is freed (if it has any) and no destructor runs.
FromBox(t, ok) ==
  LET T == src.T
      n == src.len
      value_size == T.size * n
      offset == ExtendOffset(T.align)
      dst_align == Max(WordAlign, T.align)
      dst_size == RoundUp(offset + value_size, dst_align)
  IN
  /\ proc = "running"
  /\ pc[t].op = "idle"
  /\ FreshLeft
  /\ src.kind \in {"box", "box_slice"}
  /\ src.st = "owned"
  /\ IF ~LayoutOk(offset + value_size, dst_align) THEN Panics(t, "from_box", "panic")
     ELSE IF ~ok THEN Panics(t, "from_box", "alloc_failed")
     ELSE \E p \in Heap :
            /\ Fresh(p)
            /\ blk' = [blk EXCEPT ![p] = "live"]
            /\ lay' = [lay EXCEPT ![p] = Requested([size |-> dst_size, align |-> dst_align])]
            /\ rc' = [rc EXCEPT ![p] = InitCount]
            /\ mem' = [mem EXCEPT ![p] =
                         CopyNonoverlapping(src.elems, InnerOffset(T.align), T.size,
                                            IF T.size = 0 THEN 0
                                            ELSE Tracked(src.elems, value_size \div T.size))]
            /\ ty' = [ty EXCEPT ![p] = IF src.kind = "box" THEN Sized(T) ELSE Slice(T, n)]
            /\ held' = [held EXCEPT ![t] = @ (+) One(p)]
            /\ ret' = [ret EXCEPT ![t] = Ret("from_box", p)]
            /\ UNCHANGED proc
  /\ src' = IF ret'[t].err = "none"
              THEN FreeBox([src EXCEPT !.st = "moved", !.into = ret'[t].val], value_size)
              ELSE [src EXCEPT !.st = "leaked"]
  /\ UNCHANGED <<raws, pc, borrow, frees, net, origin, build, hist>>

InitCons ==
  /\ hist = NoHist
  /\ proc = "running"
  /\ build \in Builds
  /\ src \in Sources
  /\ blk = [p \in Heap |-> "unalloc"]
  /\ rc = [p \in Heap |-> 0]
  /\ mem = [p \in Heap |-> << >>]
  /\ ty = [p \in Heap |-> NoType]
  /\ lay = [p \in Heap |-> Requested(NoLayout)]
  /\ held = [t \in Threads |-> EmptyBag]
  /\ raws = EmptyBag
  /\ pc = [t \in Threads |-> Idle]
  /\ borrow = [t \in Threads |-> NoPtr]
  /\ ret = [t \in Threads |-> NoRet]
  /\ frees = [p \in Heap |-> 0]
  /\ net = [p \in Heap |-> 0]
  /\ origin = [p \in Heap |-> NoPtr]

NextCons ==
  \/ \E t \in Threads, T \in Types, v \in NewVals : New(t, T, v)
  \/ \E t \in Threads, T \in Types : Default(t, T)
  \/ \E t \in Threads, path \in {"new", "default"} : NewFail(t, path)
  \/ \E t \in Threads, ok \in BOOLEAN : FromSlice(t, ok)
  \/ \E t \in Threads, ok \in BOOLEAN : FromVec(t, ok)
  \/ \E t \in Threads, ok \in BOOLEAN : FromBox(t, ok)
  \/ \E t \in Threads, p \in Heap : DropFetchSub(t, p)
  \/ \E t \in Threads : DropFinish(t)

SpecCons == InitCons /\ [][NextCons]_vars

\* No operation is in progress on p: no thread is between the two steps of
\* a clone or of a drop of a handle to p.
Quiet(p) == \A t \in Threads : pc[t].op \in {"clone", "drop"} => pc[t].ptr # p

\* C1: the deallocation step of drop runs at most once on an allocation,
\* whatever the interleaving of the holders' clones and drops (no double free).
C1_FreedAtMostOnce == \A p \in Heap : frees[p] <= 1

\* Two holders raced their drops of one allocation and it was freed.
C1_Witness ==
  \E p \in Heap :
    /\ frees[p] = 1
    /\ \E t \in Threads : pc[t] = [op |-> "drop", ptr |-> p, n |-> 1, new |-> NoPtr]

\* C2: a freed allocation has no live handle and no outstanding raw pointer
\* from into_raw, and nobody holds a borrow into it (no use after free); so
\* the free happened in the drop of the last reference unit.
C2_NoUseAfterFree ==
  \A p \in Heap :
    blk[p] = "freed" =>
      /\ Units(p) = 0
      /\ \A t \in Threads : borrow[t] # p
      /\ \A t \in Threads : pc[t].op \in {"clone", "mm_new", "mm_assign", "mm_get"} => pc[t].ptr # p

\* One allocation was freed after being cloned, while another stays alive
\* held by nothing but a raw pointer.
C2_Witness ==
  \E p \in Heap, q \in Heap :
    /\ blk[p] = "freed"
    /\ blk[q] = "live"
    /\ Handles(q) = 0
    /\ CopiesIn(RawOf(q), raws) = 1
    /\ rc[q] = 1

\* C3: when no clone or drop of a handle to a live allocation is in
\* progress, its count is 1 + (completed clones) - (completed drops).
C3_CountIsOnePlusClonesMinusDrops ==
  \A p \in Heap : (blk[p] = "live" /\ Quiet(p)) => StrongCount(p) = 1 + net[p]

\* Two clones completed, and one more clone and one drop cancelled out.
C3_Witness ==
  \E p \in Heap :
    /\ blk[p] = "live"
    /\ Quiet(p)
    /\ net[p] = 2
    /\ StrongCount(p) = 3
    /\ \A t \in Threads : CopiesIn(p, held[t]) >= 1

\* C5: get_mut returns Some exactly when the count it loads is 1; it returns
\* None whenever another handle or raw reference unit to the allocation
\* exists; and it changes neither the count nor the payload.
C5_GetMutIffUnique ==
  [][\A t \in Threads, p \in Heap :
       GetMut(t, p) =>
         /\ ret'[t].op = "get_mut"
         /\ (ret'[t].val = "Some") <=> (rc[p] = 1)
         /\ (ret'[t].val = "Some") <=> (borrow'[t] = p)
         /\ Units(p) >= 2 => ret'[t].val = "None"
         /\ rc' = rc
         /\ mem' = mem]_vars

\* One thread was refused on a shared allocation and the other was granted
\* access to one it owns alone.
C5_Witness ==
  \E t \in Threads, u \in Threads, p \in Heap, q \in Heap :
    /\ ret[t] = Ret("get_mut", "None") /\ Units(p) = 2 /\ Avail(t, p)
    /\ ret[u] = Ret("get_mut", "Some") /\ borrow[u] = q /\ rc[q] = 1

\* C6: make_mut on a shared handle allocates a new block with count 1 and a
\* copy of the payload, puts the new handle in place of the old one, takes
\* exactly 1 off the old count, and hands out a borrow into the new block
\* that no other handle reaches: a write through it changes no other block.
C6_MakeMutCopiesOnWrite ==
  [][\A t \in Threads :
       /\ (pc[t].op = "idle" /\ pc'[t].op = "mm_new") => rc[pc'[t].ptr] > 1
       /\ (pc[t].op = "mm_new" /\ pc'[t].op = "mm_assign") =>
            LET p == pc[t].ptr
                q == pc'[t].new
            IN  /\ q # p
                /\ blk[q] = "unalloc" /\ blk'[q] = "live"
                /\ rc'[q] = 1
                /\ ty'[q] = ty[p]
                /\ mem'[q] = mem[p]
                /\ rc'[p] = rc[p] /\ mem'[p] = mem[p]
       /\ (pc[t].op = "mm_assign" /\ pc'[t].op = "drop") =>
            LET p == pc[t].ptr
                q == pc[t].new
            IN  /\ rc'[p] = rc[p] - 1
                /\ CopiesIn(p, held'[t]) = CopiesIn(p, held[t]) - 1
                /\ CopiesIn(q, held'[t]) = 1
                /\ rc'[q] = 1
       /\ (pc[t].op = "mm_get" /\ pc[t].n = 1 /\ pc'[t].op = "idle") =>
            /\ borrow'[t] = pc[t].ptr
            /\ rc[pc[t].ptr] = 1
            /\ Units(pc[t].ptr) = 1
       /\ (\E v \in Vals : WriteMut(t, v)) =>
            /\ \A p \in Heap \ {borrow[t]} : mem'[p] = mem[p]
            /\ Units(borrow[t]) = 1
            /\ CopiesIn(borrow[t], held[t]) = 1]_vars

\* make_mut copied a shared allocation, the copy was written through the
\* borrow, and the original, still held by the other thread, kept its value.
C6_Witness ==
  \E t \in Threads, u \in Threads, q \in Heap :
    /\ t # u
    /\ borrow[t] = q
    /\ origin[q] # NoPtr
    /\ blk[origin[q]] = "live"
    /\ CopiesIn(origin[q], held[u]) = 1
    /\ Deref(origin[q]) = 42
    /\ Deref(q) = 7

\* Every raw pointer handed out by into_raw points into a live block.
RawsLive ==
  \A r \in BagToSet(raws) : \E p \in Heap : blk[p] = "live" /\ r = RawOf(p)

\* C7: into_raw and from_raw leave the count, the payload and the block as
\* they are, from_raw of the pointer into_raw returned is a handle to the
\* same allocation, and a block is not freed while a raw pointer holds one
\* of its reference units.
C7_RawRoundTrip ==
  [][/\ RawsLive /\ RawsLive'
     /\ \A t \in Threads :
          /\ \A p \in Heap :
               IntoRaw(t, p) =>
                 /\ rc' = rc /\ mem' = mem /\ blk' = blk
                 /\ raws' = raws (+) One(RawOf(p))
          /\ \A r \in BagToSet(raws) :
               FromRaw(t, r) =>
                 /\ rc' = rc /\ mem' = mem /\ blk' = blk
                 /\ \E p \in Heap :
                      /\ r = RawOf(p)
                      /\ blk[p] = "live"
                      /\ held'[t] = held[t] (+) One(p)
                      /\ Units(p)' = Units(p)]_vars

\* A handle to a 16-aligned payload came back from a raw pointer as the only
\* reference to its allocation, after the raw pointer had been the only one.
C7_Witness ==
  \E t \in Threads, p \in Heap :
    /\ ret[t] = Ret("from_raw", p)
    /\ blk[p] = "live"
    /\ ty[p].align = 16
    /\ rc[p] = 1
    /\ Units(p) = 1
    /\ CopiesIn(p, held[t]) = 1

\* The construction paths, as ret names them.
ConsPaths == {"new", "default", "from_slice", "from_vec", "from_box"}

\* C4: every construction path (new, default, from a slice, from a Vec, from
\* a Box) yields an allocation whose count is exactly 1 and which exactly one
\* handle, the returned one, points to.
C4_ConstructedCountIsOne ==
  [][\A p \in Heap :
       (blk[p] = "unalloc" /\ blk'[p] = "live") =>
         /\ rc'[p] = 1
         /\ \E t \in Threads :
              /\ ret'[t].op \in ConsPaths
              /\ ret'[t].err = "none"
              /\ ret'[t].val = p
              /\ held'[t] = held[t] (+) One(p)
              /\ \A u \in Threads \ {t} : held'[u] = held[u]]_vars

\* One holder got its handle from default(), the other from a conversion of
\* a non-empty source, and both allocations have count 1.
C4_Witness ==
  \E t, u \in Threads, p, q \in Heap :
    /\ ret[t] = Ret("default", p) /\ rc[p] = 1 /\ CopiesIn(p, held[t]) = 1
    /\ ret[u].op \in {"from_slice", "from_vec", "from_box"}
    /\ ret[u].err = "none" /\ ret[u].val = q /\ q # p
    /\ rc[q] = 1 /\ CopiesIn(q, held[u]) = 1 /\ ty[q].len = MaxLen

\* C9: in every construction path an allocation failure terminates the
\* process: whenever the allocator returned no memory to a call, the process
\* is aborted and the program does not go on.
C9_AllocFailureTerminates ==
  \A t \in Threads : ret[t].err = "alloc_failed" => proc = "aborted"

\* What the code does when the allocator returns no memory: it never returns
\* a handle or a partly built value; new and default abort the process; the
\* conversions from a slice, a Vec or a Box panic, which ends the process
\* only in a build whose panics abort and otherwise unwinds out of the call
\* while the program goes on.
AllocFailureAbortsOrPanics ==
  [][\A t \in Threads :
       (ret'[t].err = "alloc_failed" /\ ret'[t] # ret[t]) =>
         /\ held' = held /\ blk' = blk /\ rc' = rc /\ mem' = mem
         /\ ret'[t].op \in {"new", "default"} => proc' = "aborted"
         /\ ret'[t].op \in {"from_slice", "from_vec", "from_box"} =>
              proc' = (IF build.panicAbort THEN "aborted" ELSE "running")]_vars

\* The allocation failed in a conversion from a Box, the panic unwound, the
\* box was leaked, and the program goes on: the other thread holds a handle
\* it built afterwards or before.
AllocFailureUnwinds ==
  \E t, u \in Threads, p \in Heap :
    /\ ret[t] = Err("from_box", "alloc_failed")
    /\ proc = "running" /\ ~build.panicAbort
    /\ src.st = "leaked"
    /\ ret[u] = Ret("new", p) /\ CopiesIn(p, held[u]) = 1

\* C10: the conversion from a borrowed slice of n elements returns a handle
\* whose dereference is a slice of length n equal element by element to the
\* source (n = 0 included), and it leaves the source as it was.
C10_FromSliceCopies ==
  [][\A t \in Threads :
       (ret'[t].op = "from_slice" /\ ret'[t].err = "none" /\ ret'[t] # ret[t]) =>
         LET p == ret'[t].val
         IN  /\ blk[p] = "unalloc" /\ blk'[p] = "live"
             /\ ty'[p].fat /\ ty'[p].len = Len(src.elems)
             /\ [i \in 1..ty'[p].len |->
                   IF InnerOffset(ty'[p].align) + (i - 1) * ty'[p].size \in DOMAIN mem'[p]
                     THEN mem'[p][InnerOffset(ty'[p].align) + (i - 1) * ty'[p].size]
                     ELSE Uninit] = src.elems
             /\ src' = src]_vars

\* The slice [1, 2, 3] of 16-byte elements was converted, and so was the
\* empty slice in another behaviour; here the three elements are read back.
C10_Witness ==
  \E t \in Threads, p \in Heap :
    /\ ret[t] = Ret("from_slice", p)
    /\ src.kind = "slice" /\ src.elems = <<1, 2, 3>> /\ src.T.align = 16
    /\ DerefSlice(p) = <<1, 2, 3>>
    /\ src.st = "owned"

\* The empty slice was converted: the handle derefs to a slice of length 0.
C10_WitnessEmpty ==
  \E t \in Threads, p \in Heap :
    /\ ret[t] = Ret("from_slice", p)
    /\ src.elems = << >> /\ ty[p].len = 0 /\ DerefSlice(p) = << >>

\* ------------------------------------------- sources that own their elements
\* The longest Vec or boxed slice of the specification of owned sources.
MaxOwnedLen == 2

\* A Vec<T>, a Box<[T]> or a Box<T> whose elements have destructors.
OwnedSources ==
  {Source(k, T, e) : k \in {"vec", "box_slice"}, T \in Types, e \in SeqsUpTo(MaxOwnedLen)}
  \cup
  {Source("box", T, <<x>>) : T \in Types, x \in Elems}

InitOwned ==
  /\ hist = NoHist
  /\ proc = "running"
  /\ build \in Builds
  /\ src \in OwnedSources
  /\ blk = [p \in Heap |-> "unalloc"]
  /\ rc = [p \in Heap |-> 0]
  /\ mem = [p \in Heap |-> << >>]
  /\ ty = [p \in Heap |-> NoType]
  /\ lay = [p \in Heap |-> Requested(NoLayout)]
  /\ held = [t \in Threads |-> EmptyBag]
  /\ raws = EmptyBag
  /\ pc = [t \in Threads |-> Idle]
  /\ borrow = [t \in Threads |-> NoPtr]
  /\ ret = [t \in Threads |-> NoRet]
  /\ frees = [p \in Heap |-> 0]
  /\ net = [p \in Heap |-> 0]
  /\ origin = [p \in Heap |-> NoPtr]

\* The conversion of the source into a handle, and the life of the handles
\* to the allocation it made: clones, moves to the other thread, drops.
NextOwned ==
  \/ \E t \in Threads, ok \in BOOLEAN : FromVec(t, ok)
  \/ \E t \in Threads, ok \in BOOLEAN : FromBox(t, ok)
  \/ \E t \in Threads, p \in Heap : CloneFetchAdd(t, p)
  \/ \E t \in Threads : CloneReturn(t)
  \/ \E t \in Threads, p \in Heap : DropFetchSub(t, p)
  \/ \E t \in Threads : DropFinish(t)
  \/ \E t \in Threads, u \in Threads, p \in Heap : Send(t, u, p)

SpecOwned == InitOwned /\ [][NextOwned]_vars

\* The backing storage a source has of its own: none for no elements.
HasStorage(s) == s.T.size * s.cap # 0

\* What holds of a source whose elements a conversion moved into block p:
\* while p is live no destructor has run and p holds the elements; when p is
\* freed every destructor has run once; and p is freed once its last
\* reference unit is gone.
MovedOnce(p) ==
  /\ blk[p] # "unalloc"
  /\ blk[p] = "live" =>
       /\ \A i \in DOMAIN src.dtors : src.dtors[i] = 0
       /\ DerefSlice(p) = src.elems
       /\ Quiet(p) => rc[p] = 1 + net[p]
  /\ blk[p] = "freed" => \A i \in DOMAIN src.dtors : src.dtors[i] = 1
  /\ (Units(p) = 0 /\ Quiet(p)) => blk[p] = "freed"

\* C11: a handle built from a Vec of n elements holds equal contents, and
\* every element is destroyed exactly once: the Vec's length is 0 when it is
\* discarded, so it frees its buffer (once) and destroys nothing, and the
\* elements are destroyed when the last handle is dropped, not before, not
\* twice, and not never once all handles are gone.
C11_VecElementsDestroyedOnce ==
  src.kind = "vec" =>
    /\ \A i \in DOMAIN src.dtors : src.dtors[i] <= 1
    /\ src.sfrees <= 1
    /\ src.st = "moved" =>
         /\ src.len = 0
         /\ src.sfrees = (IF HasStorage(src) THEN 1 ELSE 0)
         /\ MovedOnce(src.into)

\* A Vec of two elements was converted, the last handle was dropped, and both
\* elements were destroyed once; the Vec had freed its buffer once.
C11_Witness ==
  /\ src.kind = "vec" /\ src.st = "moved" /\ Len(src.elems) = MaxOwnedLen
  /\ blk[src.into] = "freed"
  /\ src.dtors = [i \in 1..MaxOwnedLen |-> 1]
  /\ src.sfrees = 1 /\ src.len = 0

\* The allocation made from a Vec is shared by the two threads, three handles
\* in all, and no element has been destroyed.
C11_WitnessShared ==
  /\ src.kind = "vec" /\ src.st = "moved" /\ Len(src.elems) = MaxOwnedLen
  /\ blk[src.into] = "live" /\ rc[src.into] = MaxUnits
  /\ \A t \in Threads : CopiesIn(src.into, held[t]) >= 1
  /\ src.dtors = [i \in 1..MaxOwnedLen |-> 0]

\* C12: a handle built from a Box holds the bytes of the boxed value in a new
\* allocation of count 1; the memory of the box is freed exactly once, and
\* only if its size is not 0, with no destructor run; so the destructor of
\* the value runs exactly once, at the drop of the last handle.
C12_BoxValueDestroyedOnce ==
  src.kind \in {"box", "box_slice"} =>
    /\ \A i \in DOMAIN src.dtors : src.dtors[i] <= 1
    /\ src.sfrees <= 1
    /\ src.st = "owned" => src.sfrees = 0
    /\ src.st = "moved" =>
         /\ src.sfrees = (IF src.T.size * src.len # 0 THEN 1 ELSE 0)
         /\ MovedOnce(src.into)

\* A Box<T> was converted, its memory was freed once with no destructor run,
\* the handle was cloned to three, and the value is still alive.
C12_Witness ==
  /\ src.kind = "box" /\ src.st = "moved"
  /\ src.sfrees = 1 /\ src.dtors = <<0>>
  /\ blk[src.into] = "live" /\ rc[src.into] = MaxUnits
  /\ Deref(src.into) = src.elems[1]

\* An empty Box<[T]>, which has no memory of its own, was converted: nothing
\* was freed.
C12_WitnessEmpty ==
  /\ src.kind = "box_slice" /\ src.st = "moved" /\ src.len = 0
  /\ src.sfrees = 0 /\ blk[src.into] = "live"

\* The last handle to the allocation made from a Box<[T]> of two elements
\* was dropped, and each element was destroyed once.
C12_WitnessFreed ==
  /\ src.kind = "box_slice" /\ src.st = "moved" /\ Len(src.elems) = MaxOwnedLen
  /\ blk[src.into] = "freed" /\ src.dtors = [i \in 1..MaxOwnedLen |-> 1]
  /\ src.sfrees = 1

\* -------------------------------------------------- layouts of allocations
\* The alignments of the element types (powers of two).
Aligns == {1, 2, 4, 8, 16, 32, 64}

\* Element types (size, align), the size a multiple of the alignment: one of
\* each alignment, a zero-sized type, and two whose size is not a power of two.
LayoutTypes ==
  {[size |-> a, align |-> a] : a \in Aligns}
  \cup {[size |-> 0, align |-> 1], [size |-> 3, align |-> 1], [size |-> 3 * WordSize, align |-> WordAlign]}

\* Lengths: small ones, and the ones around isize::MAX and usize::MAX.
Counts == (0..MaxLen) \cup {IsizeMax - WordSize, IsizeMax, IsizeMax + 1, UsizeMax}

\* A slice of n elements of type T can exist: it is at most isize::MAX bytes.
ValidSlice(T, n) == T.size * n <= IsizeMax

\* A source of n elements of type T whose values the model leaves out.
SizedSource(k, T, n) == [Source(k, T, << >>) EXCEPT !.len = n, !.cap = n]

LayoutSources ==
  {SizedSource(x[1], x[2], x[3]) :
     x \in {y \in {"slice", "vec", "box_slice"} \X LayoutTypes \X Counts : ValidSlice(y[2], y[3])}}
  \cup
  {SizedSource("box", T, 1) : T \in LayoutTypes}

InitLayout ==
  /\ hist = NoHist
  /\ proc = "running"
  /\ build \in Builds
  /\ src \in LayoutSources
  /\ blk = [p \in Heap |-> "unalloc"]
  /\ rc = [p \in Heap |-> 0]
  /\ mem = [p \in Heap |-> << >>]
  /\ ty = [p \in Heap |-> NoType]
  /\ lay = [p \in Heap |-> Requested(NoLayout)]
  /\ held = [t \in Threads |-> EmptyBag]
  /\ raws = EmptyBag
  /\ pc = [t \in Threads |-> Idle]
  /\ borrow = [t \in Threads |-> NoPtr]
  /\ ret = [t \in Threads |-> NoRet]
  /\ frees = [p \in Heap |-> 0]
  /\ net = [p \in Heap |-> 0]
  /\ origin = [p \in Heap |-> NoPtr]

\* Every way to an allocation for the element type of the source, the raw
\* round trip of the thin handles, and the drops.
NextLayout ==
  \/ \E t \in Threads, v \in NewVals : New(t, src.T, v)
  \/ \E t \in Threads, ok \in BOOLEAN : FromSlice(t, ok)
  \/ \E t \in Threads, ok \in BOOLEAN : FromVec(t, ok)
  \/ \E t \in Threads, ok \in BOOLEAN : FromBox(t, ok)
  \/ \E t \in Threads, p \in Heap : IntoRaw(t, p)
  \/ \E t \in Threads, r \in BagToSet(raws) : FromRaw(t, r)
  \/ \E t \in Threads, p \in Heap : DropFetchSub(t, p)
  \/ \E t \in Threads : DropFinish(t)

SpecLayout == InitLayout /\ [][NextLayout]_vars

\* C13: the header offset is the same wherever it is computed: what from_raw
\* subtracts, where copy_from_slice puts the elements, the offset of the
\* field `inner` of the repr(C) ArcInner, and the offset Layout::extend gives
\* in From<Box<T>>, for every alignment of the payload; so from_raw of a
\* payload address is the start of the allocation.
C13_HeaderOffsetAgrees ==
  /\ RcWidth(src.T.align) = CopyRcWidth(src.T.align)
  /\ RcWidth(src.T.align) = InnerOffset(src.T.align)
  /\ RcWidth(src.T.align) = ExtendOffset(src.T.align)
  /\ \A r \in BagToSet(raws) :
       \E p \in Heap : blk[p] = "live" /\ ty[p].align = r.align /\ r.addr - RcWidth(r.align) = p
  /\ \A t \in Threads :
       ret[t].op = "from_raw" => (ret[t].val \in Heap /\ blk[ret[t].val] # "unalloc")

\* A Box<T> of a 64-aligned T was converted, the handle went through
\* into_raw and from_raw, and came back as a handle to the same allocation.
C13_Witness ==
  \E t \in Threads :
    /\ src.kind = "box" /\ src.st = "moved" /\ src.T.align = 64
    /\ ret[t] = Ret("from_raw", src.into)
    /\ blk[src.into] = "live" /\ CopiesIn(src.into, held[t]) = 1

\* C15: the size of the allocation of a sequence payload is the header width
\* plus the payload size rounded up to the alignment of the allocation (the
\* least multiple of it that is not below the unpadded size), and the final
\* drop frees the block with that same size and alignment.
C15_SizePaddedIsRoundedUp ==
  \A p \in Heap :
    (blk[p] # "unalloc" /\ ty[p].fat) =>
      LET align == Max(ty[p].align, WordAlign)
          size_unpadded == CopyRcWidth(ty[p].align) + ty[p].len * ty[p].size
      IN  /\ lay[p].req.align = align
          /\ lay[p].req.size % align = 0
          /\ size_unpadded <= lay[p].req.size
          /\ lay[p].req.size < size_unpadded + align
          /\ blk[p] = "freed" => lay[p].rel = lay[p].req

\* A slice of three one-byte elements got a block of 16 bytes (8 + 3 rounded
\* up to 8), and the last drop freed it as a block of 16 bytes.
C15_Witness ==
  \E p \in Heap :
    /\ src.kind = "slice" /\ src.T.size = 1 /\ src.len = 3
    /\ ty[p].fat /\ blk[p] = "freed"
    /\ lay[p].req.size = 2 * WordSize /\ lay[p].rel.size = 2 * WordSize

\* ------------------------------------------------ sizes in usize arithmetic
\* Element sizes and counts over the whole range of usize, whether a slice of
\* that many bytes can exist or not, for copy_from_slice as a function of them.
SizeTypes == LayoutTypes \cup {[size |-> IsizeMax - 6, align |-> 1]}

SizeSources ==
  {SizedSource(k, T, n) : k \in {"slice", "vec"}, T \in SizeTypes, n \in Counts}

InitSizes ==
  /\ hist = NoHist
  /\ proc = "running"
  /\ build \in Builds
  /\ src \in SizeSources
  /\ blk = [p \in Heap |-> "unalloc"]
  /\ rc = [p \in Heap |-> 0]
  /\ mem = [p \in Heap |-> << >>]
  /\ ty = [p \in Heap |-> NoType]
  /\ lay = [p \in Heap |-> Requested(NoLayout)]
  /\ held = [t \in Threads |-> EmptyBag]
  /\ raws = EmptyBag
  /\ pc = [t \in Threads |-> Idle]
  /\ borrow = [t \in Threads |-> NoPtr]
  /\ ret = [t \in Threads |-> NoRet]
  /\ frees = [p \in Heap |-> 0]
  /\ net = [p \in Heap |-> 0]
  /\ origin = [p \in Heap |-> NoPtr]

NextSizes ==
  \/ \E t \in Threads, ok \in BOOLEAN : FromSlice(t, ok)
  \/ \E t \in Threads, ok \in BOOLEAN : FromVec(t, ok)
  \/ \E t \in Threads, p \in Heap : DropFetchSub(t, p)
  \/ \E t \in Threads : DropFinish(t)

SpecSizes == InitSizes /\ [][NextSizes]_vars

\* A call of copy_from_slice by t has returned or panicked in this step.
Converted(t) == ret'[t] # ret[t] /\ ret'[t].op \in {"from_slice", "from_vec"}

\* The construction from the source must be rejected: n * s or the header
\* width + n * s overflows usize, or n is above isize::MAX.
MustReject ==
  \/ src.T.size * src.len > UsizeMax
  \/ CopyRcWidth(src.T.align) + src.T.size * src.len > UsizeMax
  \/ src.len > IsizeMax

\* The block p allocated in this step has room for the count and for the n
\* elements copy_from_slice writes into it.
HoldsWrites(p) ==
  (blk[p] = "unalloc" /\ blk'[p] = "live") =>
     /\ lay'[p].req.size >= WordSize
     /\ lay'[p].req.size >= CopyRcWidth(src.T.align) + src.T.size * src.len

C14_WitnessLayout ==
  \E t \in Threads :
    /\ src.T.size = 1 /\ src.len = IsizeMax
    /\ ret[t] = Err("from_slice", "panic")
    /\ \A p \in Heap : blk[p] = "unalloc"

\* ------------------------------------------------- mutation in place
\* A step that leaves every allocation, its count and its contents, and the
\* handles of every thread as they were.
NothingMoved == blk' = blk /\ rc' = rc /\ mem' = mem /\ ty' = ty /\ held' = held /\ origin' = origin

\* C16: when the count is 1, get_mut and make_mut allocate nothing and copy
\* nothing, and the handle stays on the same allocation: the access they hand
\* out is into that allocation, a write through it is what a later deref of
\* the handle reads, and the payload changes in no other way.
C16_UniqueMutatesInPlace ==
  [][\A t \in Threads, p \in Heap :
       /\ (GetMut(t, p) /\ StrongCount(p) = 1) =>
            (ret'[t] = Ret("get_mut", "Some") /\ borrow'[t] = p /\ NothingMoved)
       /\ (MakeMutCheck(t, p) /\ StrongCount(p) = 1) =>
            (pc'[t].op = "mm_get" /\ pc'[t].ptr = p /\ NothingMoved)
       /\ (MakeMutGet(t) /\ pc[t].n = 0 /\ pc[t].ptr = p) =>
            (ret'[t] = Ret("make_mut", p) /\ borrow'[t] = p /\ NothingMoved)
       /\ \A v \in Vals :
            (WriteMut(t, v) /\ borrow[t] = p) =>
               (Deref(p)' = v /\ blk'[p] = "live" /\ CopiesIn(p, held'[t]) >= 1)
       /\ (blk[p] = "live" /\ mem'[p] # mem[p]) => \E u \in Threads : borrow[u] = p]_vars

\* The scenario: a handle A over 42, a clone B of it, A is being dropped (its
\* decrement is done), and get_mut(B) returned Some; 7 was written through it
\* and is what B reads, in the allocation Arc::new made.
C16_Witness ==
  \E t \in Threads, u \in Threads, p \in Heap :
    /\ t # u
    /\ pc[u].op = "drop" /\ pc[u].ptr = p /\ pc[u].n = 1
    /\ ret[t] = Ret("get_mut", "Some") /\ borrow[t] = p
    /\ rc[p] = 1 /\ blk[p] = "live" /\ origin[p] = NoPtr
    /\ CopiesIn(p, held[t]) = 1
    /\ Deref(p) = 7

\* make_mut found the count 1 and handed out access to the same allocation.
C16_WitnessMakeMut ==
  \E t \in Threads, p \in Heap :
    /\ ret[t] = Ret("make_mut", p) /\ borrow[t] = p
    /\ origin[p] = NoPtr /\ rc[p] = 1 /\ Deref(p) = 7
    /\ \A q \in Heap \ {p} : blk[q] = "unalloc"

\* ------------------------------------------------- the count and the units
\* The handle make_mut has built with Arc::new and not yet assigned to *arc.
Temporaries(p) == Cardinality({t \in Threads : pc[t].op = "mm_assign" /\ pc[t].new = p})

\* The drop whose decrement reached 0 has not yet freed the allocation.
LastDropPending(p) == \E t \in Threads : pc[t].op = "drop" /\ pc[t].ptr = p /\ IsLast(pc[t].n)

\* C18 as stated: the count of a live allocation is at least 1 and at least
\* the number of its reference units (handles and raw addresses), and is that
\* number when no clone and no drop of it is in progress; the count is 0 only
\* once the allocation has been freed.
C18_CountAtLeastOneWhileLive ==
  \A p \in Heap :
    /\ blk[p] = "live" =>
         /\ rc[p] >= 1
         /\ rc[p] >= Units(p) + Temporaries(p)
         /\ Quiet(p) => rc[p] = Units(p) + Temporaries(p)
    /\ (blk[p] # "unalloc" /\ rc[p] = 0) => blk[p] = "freed"

\* C18 (amended): the count of a live allocation is at least the number of
\* its reference units and is that number when no clone and no drop of it is
\* in progress; it is at least 1 except between the decrement that reached 0
\* and the deallocation which that same drop performs next; a freed
\* allocation has the count 0.
C18_CountCoversUnits ==
  \A p \in Heap :
    /\ blk[p] = "live" =>
         /\ rc[p] >= Units(p) + Temporaries(p)
         /\ Quiet(p) => rc[p] = Units(p) + Temporaries(p)
         /\ rc[p] = 0 => LastDropPending(p)
    /\ blk[p] = "freed" => rc[p] = 0

\* An allocation with two units and a clone under way: the count is 3.
C18_Witness ==
  \E p \in Heap, t \in Threads :
    /\ blk[p] = "live" /\ Units(p) = 2 /\ rc[p] = 3
    /\ pc[t].op = "clone" /\ pc[t].ptr = p

\* The last drop has taken the count to 0 and has not freed the block yet.
C18_WitnessLastDrop ==
  \E p \in Heap : blk[p] = "live" /\ rc[p] = 0 /\ LastDropPending(p) /\ Units(p) = 0

\* C19: once get_mut or make_mut has seen the count 1 and handed out the
\* mutable access, the count stays 1 for as long as the access is in use,
\* whatever the other threads clone and drop: the only unit is the borrowed
\* handle itself, which its holder can neither clone, drop nor send.
C19_CountStaysOne ==
  \A t \in Threads :
    borrow[t] # NoPtr =>
      /\ blk[borrow[t]] = "live"
      /\ rc[borrow[t]] = 1
      /\ Units(borrow[t]) = 1
      /\ CopiesIn(borrow[t], held[t]) = 1
      /\ \A u \in Threads : pc[u].op = "clone" => pc[u].ptr # borrow[t]

\* While one thread uses the access get_mut gave it, the other thread is in
\* the middle of a clone of a handle to another allocation.
C19_Witness ==
  \E t \in Threads, u \in Threads :
    /\ t # u
    /\ ret[t] = Ret("get_mut", "Some") /\ borrow[t] # NoPtr
    /\ Deref(borrow[t]) = 7
    /\ pc[u].op = "clone" /\ pc[u].ptr # borrow[t]

\* The access make_mut gave is in use while the holder of the handle that
\* make_mut copied from clones that handle.
C19_WitnessMakeMut ==
  \E t \in Threads, u \in Threads :
    /\ t # u
    /\ ret[t].op = "make_mut" /\ borrow[t] # NoPtr
    /\ origin[borrow[t]] # NoPtr
    /\ pc[u].op = "clone" /\ pc[u].ptr = origin[borrow[t]]

\* --------------------------------------------------------- memory ordering
\* *arc: a read of the payload through Deref by a holder of a handle to p.
Read(t, p) ==
  /\ proc = "running"
  /\ pc[t].op = "idle"
  /\ Avail(t, p)
  /\ hist' = HistAccess(t, p)
  /\ UNCHANGED <<proc, blk, rc, mem, ty, held, raws, pc, borrow, ret, frees, net, origin,
                 build, lay, src>>

InitOrder ==
  /\ hist = [NoHist EXCEPT !.mode = "order"]
  /\ proc = "running"
  /\ blk = [p \in Heap |-> "unalloc"]
  /\ rc = [p \in Heap |-> 0]
  /\ mem = [p \in Heap |-> << >>]
  /\ ty = [p \in Heap |-> NoType]
  /\ held = [t \in Threads |-> EmptyBag]
  /\ raws = EmptyBag
  /\ pc = [t \in Threads |-> Idle]
  /\ borrow = [t \in Threads |-> NoPtr]
  /\ ret = [t \in Threads |-> NoRet]
  /\ frees = [p \in Heap |-> 0]
  /\ net = [p \in Heap |-> 0]
  /\ origin = [p \in Heap |-> NoPtr]
  /\ build = ReleaseBuild
  /\ lay = [p \in Heap |-> Requested(NoLayout)]
  /\ src = NoSource

\* The holders of the handles to one allocation read the payload, clone, drop
\* and hand handles to each other; a thread takes a handle over between its
\* own operations.
NextOrder ==
  \/ \E t \in Threads, v \in NewVals :
       (\A p \in Heap : blk[p] = "unalloc") /\ New(t, [size |-> 1, align |-> 1], v)
  \/ \E t \in Threads, p \in Heap : Read(t, p)
  \/ \E t \in Threads, p \in Heap : CloneFetchAdd(t, p)
  \/ \E t \in Threads : CloneReturn(t)
  \/ \E t \in Threads, p \in Heap : DropFetchSub(t, p)
  \/ \E t \in Threads : DropFinish(t)
  \/ \E t \in Threads, u \in Threads, p \in Heap : pc[u].op = "idle" /\ Send(t, u, p)
  \/ \E t \in Threads, p \in Heap : GetMut(t, p)
  \/ \E t \in Threads : EndBorrow(t)

SpecOrder == InitOrder /\ [][NextOrder]_vars

\* C17: with the relaxed increment, the release decrement and the acquire
\* fence after the decrement that reaches 0, every decrement of the count of
\* an allocation and every access to its payload, by any holder, happens
\* before the deallocation, in every interleaving.
C17_DropsHappenBeforeFree ==
  \A p \in Heap : blk[p] = "freed" => hist.all[p] \subseteq hist.seen[p]

\* Both threads have read the payload of an allocation and decremented its
\* count, and it was freed.
C17_Witness ==
  \E p \in Heap :
    /\ blk[p] = "freed"
    /\ \A t \in Threads, k \in {"access", "dec"} : [by |-> t, on |-> p, kind |-> k] \in hist.all[p]

\* ------------------------------------------------------------- no leak
\* The number of clones the holders make in a run.
MaxClones == 2

InitLive ==
  /\ hist = [NoHist EXCEPT !.mode = "count"]
  /\ proc = "running"
  /\ blk = [p \in Heap |-> "unalloc"]
  /\ rc = [p \in Heap |-> 0]
  /\ mem = [p \in Heap |-> << >>]
  /\ ty = [p \in Heap |-> NoType]
  /\ held = [t \in Threads |-> EmptyBag]
  /\ raws = EmptyBag
  /\ pc = [t \in Threads |-> Idle]
  /\ borrow = [t \in Threads |-> NoPtr]
  /\ ret = [t \in Threads |-> NoRet]
  /\ frees = [p \in Heap |-> 0]
  /\ net = [p \in Heap |-> 0]
  /\ origin = [p \in Heap |-> NoPtr]
  /\ build = ReleaseBuild
  /\ lay = [p \in Heap |-> Requested(NoLayout)]
  /\ src = NoSource

\* The operations on handles, with at most MaxClones clones in the run.
NextLive ==
  \/ \E t \in Threads, v \in NewVals : New(t, [size |-> 1, align |-> 1], v)
  \/ \E t \in Threads, p \in Heap : hist.clones < MaxClones /\ CloneFetchAdd(t, p)
  \/ \E t \in Threads : CloneReturn(t)
  \/ \E t \in Threads, p \in Heap : DropFetchSub(t, p)
  \/ \E t \in Threads : DropFinish(t)
  \/ \E t \in Threads, u \in Threads, p \in Heap : Send(t, u, p)
  \/ \E t \in Threads, p \in Heap : IntoRaw(t, p)
  \/ \E t \in Threads, r \in BagToSet(raws) : FromRaw(t, r)
  \/ \E t \in Threads, p \in Heap : MakeMutCheck(t, p)
  \/ \E t \in Threads : MakeMutNew(t)
  \/ \E t \in Threads : MakeMutAssign(t)
  \/ \E t \in Threads : MakeMutGet(t)
  \/ \E t \in Threads : EndBorrow(t)

\* A thread inside clone, drop or make_mut goes on to the end of it.
Progress ==
  \A t \in Threads :
    /\ WF_vars(CloneReturn(t))
    /\ WF_vars(DropFinish(t))
    /\ WF_vars(MakeMutNew(t))
    /\ WF_vars(MakeMutAssign(t))
    /\ WF_vars(MakeMutGet(t))

\* Every holder eventually drops every handle it owns: it gives up the
\* mutable access it was handed, a raw address is rebuilt into a handle, and
\* a handle a thread owns again and again is dropped.
HoldersDrop ==
  /\ \A t \in Threads : WF_vars(EndBorrow(t))
  /\ \A p \in Heap : SF_vars(\E t \in Threads : blk[p] = "live" /\ FromRaw(t, RawOf(p)))
  /\ \A t \in Threads, p \in Heap : SF_vars(DropFetchSub(t, p))

SpecLive == InitLive /\ [][NextLive]_vars /\ Progress /\ HoldersDrop

\* An allocation that is freed and left alone: its count is 0, no handle and
\* no raw address to it is left, and no thread is inside a clone of it or the
\* drop that frees it (a drop that did not reach 0 may still be returning).
Settled(p) ==
  /\ blk[p] = "freed"
  /\ rc[p] = 0
  /\ Units(p) = 0
  /\ \A t \in Threads : pc[t].ptr = p => (pc[t].op = "drop" /\ ~IsLast(pc[t].n))

\* C20: in a run in which every holder drops every handle it owns, every
\* allocation is eventually deallocated, and from then on its count does not
\* change and no clone and no drop of a handle to it happens.
C20_EventuallyFreedForGood ==
  \A p \in Heap : (blk[p] = "live") ~> [](Settled(p))

\* Both allocations are freed: the one Arc::new made, which was cloned, and
\* the one make_mut put in place of a handle to it.
C20_Witness ==
  \E p \in Heap, q \in Heap :
    /\ blk[p] = "freed" /\ blk[q] = "freed"
    /\ origin[q] = p
    /\ hist.clones = MaxClones
    /\ \A t \in Threads : pc[t] = Idle /\ held[t] = EmptyBag
    /\ raws = EmptyBag

TypeOK ==
  /\ proc \in {"running", "aborted"}
  /\ \A p \in Heap : blk[p] \in {"unalloc", "live", "freed"}
  /\ \A p \in Heap : rc[p] \in 0..UsizeMax

====
